---- MODULE Spec2Model ----
(***************************************************************************)
(* Model of the data-acquisition pipeline of the Sør-Norge weather         *)
(* dashboard (src/app.py): sidebar input, the memoized helpers             *)
(* geocode_city and fetch_daily, the per-city fetch loop, the empty-result *)
(* stop and the presentation steps that follow it.                         *)
(*                                                                         *)
(* Python values are represented as follows.                               *)
(*   None            the record [none |-> TRUE]                            *)
(*   dict            a record with the dict's keys                         *)
(*   date            a record [year, month, day]                           *)
(*   ISO date text   the tuple <<year, month, day>> of its three fields    *)
(*   DataFrame       a record [columns |-> <<names>>, rows |-> <<records>>]*)
(*   a raised error  the record [raised |-> TRUE] as a call's result       *)
(***************************************************************************)
EXTENDS Integers, Sequences, FiniteSets, TLC

VARIABLES
    cities,       \* the query list built by the sidebar
    show_precip,  \* sidebar checkbox
    show_wind,    \* sidebar checkbox
    today,        \* date.today() of the current run
    pc,           \* position of the script run
    i,            \* 1-based index of the loop's current city
    geo,          \* the loop's geo (None before the first resolution of a run)
    rows,         \* list of per-place DataFrames
    warnings,     \* st.warning calls of the current run, in order
    errors,       \* st.error calls of the current run, in order
    data,         \* the combined table (None until pd.concat ran)
    shown,        \* presentation steps executed in the current run
    geoCache,     \* st.cache_data store of geocode_city
    fetchCache,   \* st.cache_data store of fetch_daily
    runs,         \* number of script runs started in this session
    calls,        \* history: helper calls of the current run
    trace,        \* history: per-query outcome of the current run
    geoReq,       \* history: geocoding requests sent, per place name
    fetchReq,     \* history: forecast requests sent, per argument tuple
    geoRet,       \* history: values geocode_city returned, per place name
    fetchRet,     \* history: values fetch_daily returned, per argument tuple
    unit          \* the last direct helper call of the function harness

vars == <<cities, show_precip, show_wind, today, pc, i, geo, rows, warnings,
          errors, data, shown, geoCache, fetchCache, runs, calls, trace,
          geoReq, fetchReq, geoRet, fetchRet, unit>>

(***************************************************************************)
(* Bounds                                                                  *)
(***************************************************************************)
NumOptions == 2     \* how many of DEFAULT_CITIES the multiselect offers
MaxRuns == 2        \* script runs per session
MaxCands == 2       \* candidates in a geocoding response (harness)
MaxSpan == 3        \* largest end - start of a date range (harness)

(***************************************************************************)
(* Python values                                                           *)
(***************************************************************************)
None == [none |-> TRUE]

Raised == [raised |-> TRUE]

Returned(v) == [raised |-> FALSE, val |-> v]

Get(d, k) == IF k \in DOMAIN d THEN d[k] ELSE None

(***************************************************************************)
(* datetime.date                                                           *)
(***************************************************************************)
MkDate(y, m, d) == [year |-> y, month |-> m, day |-> d]

IsLeap(y) == (y % 4 = 0 /\ y % 100 # 0) \/ y % 400 = 0

DaysInMonth(y, m) ==
    IF m = 2 THEN (IF IsLeap(y) THEN 29 ELSE 28)
    ELSE IF m \in {4, 6, 9, 11} THEN 30 ELSE 31

NextDay(d) ==
    IF d.day < DaysInMonth(d.year, d.month)
    THEN MkDate(d.year, d.month, d.day + 1)
    ELSE IF d.month < 12 THEN MkDate(d.year, d.month + 1, 1)
    ELSE MkDate(d.year + 1, 1, 1)

RECURSIVE AddDays(_, _)
AddDays(d, n) == IF n = 0 THEN d ELSE AddDays(NextDay(d), n - 1)

DateLE(a, b) ==
    \/ a.year < b.year
    \/ a.year = b.year /\ a.month < b.month
    \/ a.year = b.year /\ a.month = b.month /\ a.day <= b.day

isoformat(d) == <<d.year, d.month, d.day>>

fromiso(s) == MkDate(s[1], s[2], s[3])

to_date(s) == MkDate(s[1], s[2], s[3])

\* date.toordinal(), counted from 1 January 2023
RECURSIVE DaysBeforeYear(_)
DaysBeforeYear(y) ==
    IF y <= 2023 THEN 0
    ELSE DaysBeforeYear(y - 1) + (IF IsLeap(y - 1) THEN 366 ELSE 365)

RECURSIVE DaysBeforeMonth(_, _)
DaysBeforeMonth(y, m) ==
    IF m <= 1 THEN 0 ELSE DaysBeforeMonth(y, m - 1) + DaysInMonth(y, m - 1)

toordinal(d) == DaysBeforeYear(d.year) + DaysBeforeMonth(d.year, d.month) + d.day

(***************************************************************************)
(* Sidebar (src/app.py 28-54)                                              *)
(***************************************************************************)
DEFAULT_CITIES ==
    <<"Kristiansand", "Arendal", "Grimstad", "Mandal", "Flekkefjord",
      "Stavanger", "Sandnes", "Egersund", "Skien", "Porsgrunn">>

\* the options the multiselect offers within the bound
Options == SubSeq(DEFAULT_CITIES, 1, NumOptions)

\* the lists st.multiselect can return: the selected options, each once,
\* taken in the order in which they are offered
RECURSIVE Picked(_, _)
Picked(opts, S) ==
    IF opts = <<>> THEN <<>>
    ELSE (IF Head(opts) \in S THEN <<Head(opts)>> ELSE <<>>)
         \o Picked(Tail(opts), S)

Selections == { Picked(Options, S) : S \in SUBSET {Options[k] : k \in 1..Len(Options)} }

\* default=DEFAULT_CITIES[:5], within the options offered
NumDefault == 5

DefaultSelection ==
    SubSeq(Options, 1, IF NumDefault < Len(Options) THEN NumDefault ELSE Len(Options))

\* what the free-text box can hold: nothing, a name the multiselect offers,
\* the same town typed in lower case, another town, and a town abroad
ExtraInputs == {"", "Kristiansand", "kristiansand", "Arendal", "Mandalay"}

Contains(seq, x) == \E k \in 1..Len(seq) : seq[k] = x

\* if extra_city and extra_city not in cities: cities.append(extra_city)
AddExtra(sel, extra_city) ==
    IF extra_city # "" /\ ~Contains(sel, extra_city)
    THEN Append(sel, extra_city)
    ELSE sel

\* timedelta(days=6)
ForecastDays == 6

StartDate(t) == t

EndDate(t) == AddDays(t, ForecastDays)

\* the days on which a session can run
Todays == {MkDate(2024, 2, 26)}

(***************************************************************************)
(* Geocoding service and geocode_city (src/app.py 60-99)                   *)
(***************************************************************************)
HTTP_OK == 200

Candidate(n, la, lo, c) == [name |-> n, latitude |-> la, longitude |-> lo, country |-> c]

\* The candidates the search endpoint ranks for a name.  The endpoint
\* matches names without regard to case and ranks Mandalay above Mandal.
Gazetteer(name) ==
    CASE name \in {"Kristiansand", "kristiansand"} ->
            <<Candidate("Kristiansand", 58, 8, "Norge")>>
      [] name = "Arendal" ->
            <<Candidate("Arendal", 58, 9, "Norge")>>
      [] name = "Grimstad" ->
            <<Candidate("Grimstad", 58, 10, "Norge")>>
      [] name = "Mandal" ->
            <<Candidate("Mandalay", 22, 96, "Myanmar"),
              Candidate("Mandal", 58, 7, "Norge")>>
      [] name = "Mandalay" ->
            <<Candidate("Mandalay", 22, 96, "Myanmar")>>
      [] OTHER -> <<>>

NetError == [kind |-> "net_error"]

HttpResponse(code, js) == [kind |-> "http", status_code |-> code, json |-> js]

\* what requests.get can do for a geocoding request: raise on a timeout or
\* a connection failure, answer with an error status, or answer 200 with
\* the candidates (the results key is absent when there are none)
GeoResponses(city_name) ==
    { NetError,
      HttpResponse(500, [reason |-> "error"]),
      HttpResponse(HTTP_OK,
          IF Gazetteer(city_name) = <<>> THEN [generationtime_ms |-> 1]
          ELSE [results |-> Gazetteer(city_name)]) }

ACCEPTED_COUNTRIES == {"Norway", "Norge"}

RECURSIVE Filter(_, _)
Filter(seq, S) ==
    IF seq = <<>> THEN <<>>
    ELSE (IF "country" \in DOMAIN Head(seq) /\ Head(seq).country \in S
          THEN <<Head(seq)>> ELSE <<>>)
         \o Filter(Tail(seq), S)

\* mutation: the last Norwegian hit instead of the first
FirstHitLast(hits) == hits[Len(hits)]

\* norwegian_hits[0]
FirstHit(hits) == hits[1]

\* the body of geocode_city, given what requests.get did
geocode_city(city_name, r) ==
    IF r.kind = "net_error" THEN Raised
    ELSE IF r.status_code # HTTP_OK THEN Returned(None)
    ELSE LET results == IF "results" \in DOMAIN r.json THEN r.json.results ELSE <<>>
             norwegian_hits == Filter(results, ACCEPTED_COUNTRIES)
         IN  IF results = <<>> THEN Returned(None)
             ELSE IF norwegian_hits = <<>> THEN Returned(None)
             ELSE LET item == FirstHit(norwegian_hits)
                  IN  Returned([name |-> Get(item, "name"),
                                lat |-> Get(item, "latitude"),
                                lon |-> Get(item, "longitude"),
                                country |-> Get(item, "country")])

(***************************************************************************)
(* Forecast service and fetch_daily (src/app.py 102-149)                   *)
(***************************************************************************)
\* daily_vars
DailyVars(need_precip, need_wind) ==
    <<"temperature_2m_max", "temperature_2m_min">>
    \o (IF need_precip
        THEN <<"precipitation_sum", "precipitation_probability_max">> ELSE <<>>)
    \o (IF need_wind THEN <<"wind_speed_10m_max">> ELSE <<>>)

\* mutation: start passed for end_date as well
FetchParamsEndIsStart(lat, lon, start, end, need_precip, need_wind) ==
    [latitude |-> lat, longitude |-> lon, timezone |-> "Europe/Oslo",
     start_date |-> isoformat(start), end_date |-> isoformat(start),
     daily |-> DailyVars(need_precip, need_wind)]

\* params of the forecast request; "daily" is the comma-joined list, kept
\* as the list of its items
FetchParams(lat, lon, start, end, need_precip, need_wind) ==
    [latitude |-> lat, longitude |-> lon, timezone |-> "Europe/Oslo",
     start_date |-> isoformat(start), end_date |-> isoformat(end),
     daily |-> DailyVars(need_precip, need_wind)]

\* the ISO dates from s to e inclusive, as the service lists them
RECURSIVE IsoDays(_, _)
IsoDays(s, e) ==
    IF s = e THEN <<isoformat(s)>> ELSE <<isoformat(s)>> \o IsoDays(NextDay(s), e)

\* the value the service reports for a metric on the k-th day of a series
Reading(metric, lat, k) ==
    CASE metric = "temperature_2m_max" -> (lat % 10) + k
      [] metric = "temperature_2m_min" -> (lat % 10) - k
      [] OTHER -> k

\* the "daily" object of a forecast answer: the time array and one array per
\* requested metric, in that order, all of the same length
DailyObject(p, times) ==
    <<[key |-> "time", values |-> times]>>
    \o [k \in 1..Len(p.daily) |->
          [key |-> p.daily[k],
           values |-> [n \in 1..Len(times) |-> Reading(p.daily[k], p.latitude, n)]]]

\* what requests.get can do for a forecast request: raise, answer with an
\* error status (always so when the range is reversed), answer 200 without
\* a daily object, with empty arrays, or with the requested series
FetchResponses(p) ==
    LET s == fromiso(p.start_date)
        e == fromiso(p.end_date)
    IN  { NetError, HttpResponse(400, [error |-> TRUE]) }
        \cup (IF DateLE(s, e)
              THEN { HttpResponse(HTTP_OK, [latitude |-> p.latitude]),
                     HttpResponse(HTTP_OK, [daily |-> DailyObject(p, <<>>)]),
                     HttpResponse(HTTP_OK, [daily |-> DailyObject(p, IsoDays(s, e))]) }
              ELSE {})

\* pd.DataFrame(daily): one column per key, one row per array position
DataFrame(daily) ==
    LET keys == {daily[k].key : k \in 1..Len(daily)}
        col(c) == (CHOOSE k \in 1..Len(daily) : daily[k].key = c)
    IN  [columns |-> [k \in 1..Len(daily) |-> daily[k].key],
         rows |-> [n \in 1..Len(daily[1].values) |->
                      [c \in keys |-> daily[col(c)].values[n]]]]

\* the column names of line 138-147
NewName(c) ==
    CASE c = "time" -> "date"
      [] c = "temperature_2m_max" -> "tmax"
      [] c = "temperature_2m_min" -> "tmin"
      [] c = "precipitation_sum" -> "precip_mm"
      [] c = "precipitation_probability_max" -> "precip_prob"
      [] c = "wind_speed_10m_max" -> "wind_max"
      [] OTHER -> c

\* df.rename(columns=...)
Rename(df) ==
    LET old(n) == CHOOSE c \in {df.columns[k] : k \in 1..Len(df.columns)} : NewName(c) = n
    IN  [columns |-> [k \in 1..Len(df.columns) |-> NewName(df.columns[k])],
         rows |-> [n \in 1..Len(df.rows) |->
                      [c \in {NewName(df.columns[k]) : k \in 1..Len(df.columns)} |->
                          df.rows[n][old(c)]]]]

\* df[col] = vals: the column is replaced, or added as the last column
Assign(df, col, vals) ==
    [columns |-> IF Contains(df.columns, col) THEN df.columns
                 ELSE Append(df.columns, col),
     rows |-> [n \in 1..Len(df.rows) |->
                  [c \in DOMAIN df.rows[n] \cup {col} |->
                      IF c = col THEN vals[n] ELSE df.rows[n][c]]]]

\* a scalar broadcast over the rows of df
Broadcast(df, v) == [n \in 1..Len(df.rows) |-> v]

\* df["date"] = pd.to_datetime(df["date"]).dt.date
ParseDates(df) ==
    Assign(df, "date", [n \in 1..Len(df.rows) |-> to_date(df.rows[n].date)])

\* the body of fetch_daily, given what requests.get did
fetch_daily(r) ==
    IF r.kind = "net_error" THEN Raised
    ELSE IF r.status_code # HTTP_OK THEN Returned(None)
    ELSE LET daily == IF "daily" \in DOMAIN r.json THEN r.json.daily ELSE <<>>
         IN  IF daily = <<>> THEN Returned(None)
             ELSE Returned(ParseDates(Rename(DataFrame(daily))))

\* df.empty
Empty(df) == df.rows = <<>>

(***************************************************************************)
(* st.cache_data (src/app.py 60, 102): a store keyed by the arguments.  A  *)
(* hit returns the stored value without running the body; a miss runs the  *)
(* body and stores what it returns, None included; a raised error is not   *)
(* stored.                                                                 *)
(***************************************************************************)
GeoKey(city_name) == city_name

\* mutation: the feature flags are left out of the cache key
FetchKeyNoFlags(lat, lon, start, end, need_precip, need_wind) ==
    <<lat, lon, start, end>>

FetchKey(lat, lon, start, end, need_precip, need_wind) ==
    <<lat, lon, start, end, need_precip, need_wind>>

Cached(cache, key) == key \in DOMAIN cache

Store(cache, key, res) ==
    IF Cached(cache, key) \/ res.raised THEN cache ELSE (key :> res.val) @@ cache

Memoized(cache, key, body) ==
    IF Cached(cache, key) THEN Returned(cache[key]) ELSE body

\* history bookkeeping
Count(f, k) == IF k \in DOMAIN f THEN f[k] ELSE 0

Bump(f, k) == (k :> (Count(f, k) + 1)) @@ f

Seen(f, k) == IF k \in DOMAIN f THEN f[k] ELSE {}

Note(f, k, res) == IF res.raised THEN f ELSE (k :> (Seen(f, k) \cup {res.val})) @@ f

Outcome(res) ==
    IF res.raised THEN "raised" ELSE IF res.val = None THEN "none" ELSE "value"

CallRecord(fn, idx, cached, r, res) ==
    [fn |-> fn, query |-> idx, net |-> IF cached THEN "cached" ELSE r.kind,
     out |-> Outcome(res)]

(***************************************************************************)
(* The script run (src/app.py 33-54, 155-342)                              *)
(***************************************************************************)
NoUnit == [fn |-> "none"]

\* The first run of a session: the widgets hold their defaults, the caches
\* are empty and the script is about to enter the loop.
Init ==
    /\ cities = AddExtra(DefaultSelection, "")
    /\ show_precip = TRUE
    /\ show_wind = FALSE
    /\ today \in Todays
    /\ pc = "loop"
    /\ i = 1
    /\ geo = None
    /\ rows = <<>>
    /\ warnings = <<>>
    /\ errors = <<>>
    /\ data = None
    /\ shown = <<>>
    /\ geoCache = <<>>
    /\ fetchCache = <<>>
    /\ runs = 1
    /\ calls = <<>>
    /\ trace = <<>>
    /\ geoReq = <<>>
    /\ fetchReq = <<>>
    /\ geoRet = <<>>
    /\ fetchRet = <<>>
    /\ unit = NoUnit

RunOver == pc \in {"done", "stopped", "crashed"}

\* A widget change re-runs the whole script once the previous run is over:
\* the sidebar is read and rows = [].  The caches are kept.
Rerun ==
    /\ RunOver
    /\ runs < MaxRuns
    /\ \E sel \in Selections, extra_city \in ExtraInputs,
          p \in BOOLEAN, w \in BOOLEAN, t \in Todays :
          /\ cities' = AddExtra(sel, extra_city)
          /\ show_precip' = p
          /\ show_wind' = w
          /\ today' = t
    /\ pc' = "loop"
    /\ i' = 1
    /\ geo' = None
    /\ rows' = <<>>
    /\ warnings' = <<>>
    /\ errors' = <<>>
    /\ data' = None
    /\ shown' = <<>>
    /\ runs' = runs + 1
    /\ calls' = <<>>
    /\ trace' = <<>>
    /\ UNCHANGED <<geoCache, fetchCache, geoReq, fetchReq, geoRet, fetchRet, unit>>

InLoop == pc = "loop" /\ i <= Len(cities)

\* mutation: the loop does not advance
NextIndexStay(k) == k

\* for city in cities: the next element
NextIndex(k) == k + 1

\* if not geo
NotGeo(g) == g = None

\* if df is None or df.empty
NoData(df) == IF df = None THEN TRUE ELSE Empty(df)

WarnNoCoords(city) == [kind |-> "no_coords", city |-> city]

WarnNoData(city) == [kind |-> "no_data", city |-> city]

\* mutation: the table is inserted at the front
AppendRowsFront(rs, df) == <<df>> \o rs

\* rows.append(df)
AppendRows(rs, df) == Append(rs, df)

\* df["city"] = geo["name"]; df["lat"] = geo["lat"]; df["lon"] = geo["lon"]
Tag(df, g) ==
    LET d1 == Assign(df, "city", Broadcast(df, g.name))
        d2 == Assign(d1, "lat", Broadcast(d1, g.lat))
    IN  Assign(d2, "lon", Broadcast(d2, g.lon))

\* geocode_city(city) through its cache
CallGeo(city, r) == Memoized(geoCache, GeoKey(city), geocode_city(city, r))

GeoEffects(city, res) ==
    /\ geoCache' = Store(geoCache, GeoKey(city), res)
    /\ geoReq' = IF Cached(geoCache, GeoKey(city)) THEN geoReq ELSE Bump(geoReq, city)
    /\ geoRet' = Note(geoRet, city, res)

GeoCallRecord(r, res) ==
    CallRecord("geocode_city", i, Cached(geoCache, GeoKey(cities[i])), r, res)

\* the arguments of the fetch_daily call of line 164-171
FetchArgs(g) ==
    <<g.lat, g.lon, StartDate(today), EndDate(today), show_precip, show_wind>>

FetchKeyOf(a) == FetchKey(a[1], a[2], a[3], a[4], a[5], a[6])

FetchParamsOf(a) == FetchParams(a[1], a[2], a[3], a[4], a[5], a[6])

\* fetch_daily(...) through its cache
CallFetch(key, r) == Memoized(fetchCache, key, fetch_daily(r))

FetchEffects(key, res) ==
    /\ fetchCache' = Store(fetchCache, key, res)
    /\ fetchReq' = IF Cached(fetchCache, key) THEN fetchReq ELSE Bump(fetchReq, key)
    /\ fetchRet' = Note(fetchRet, key, res)

FetchCallRecord(key, r, res) ==
    CallRecord("fetch_daily", i, Cached(fetchCache, key), r, res)

TraceEntry(city, outcome) == [query |-> city, outcome |-> outcome]

\* line 158: requests.get raises inside geocode_city; nothing catches it
ResolveRaise ==
    /\ InLoop
    /\ \E gr \in GeoResponses(cities[i]) :
          LET g == CallGeo(cities[i], gr)
          IN  /\ g.raised
              /\ GeoEffects(cities[i], g)
              /\ calls' = Append(calls, GeoCallRecord(gr, g))
    /\ pc' = "crashed"
    /\ trace' = Append(trace, TraceEntry(cities[i], "resolve_fail"))
    /\ UNCHANGED <<cities, show_precip, show_wind, today, i, geo, rows, warnings,
                   errors, data, shown, fetchCache, runs, fetchReq, fetchRet, unit>>

\* line 158-162: no Norwegian coordinates, warn and continue
ResolveMiss ==
    /\ InLoop
    /\ \E gr \in GeoResponses(cities[i]) :
          LET g == CallGeo(cities[i], gr)
          IN  /\ ~g.raised
              /\ NotGeo(g.val)
              /\ GeoEffects(cities[i], g)
              /\ calls' = Append(calls, GeoCallRecord(gr, g))
              /\ geo' = g.val
    /\ warnings' = Append(warnings, WarnNoCoords(cities[i]))
    /\ i' = NextIndex(i)
    /\ trace' = Append(trace, TraceEntry(cities[i], "resolve_fail"))
    /\ UNCHANGED <<cities, show_precip, show_wind, today, pc, rows, errors,
                   data, shown, fetchCache, runs, fetchReq, fetchRet, unit>>

\* line 158-160: the place resolves
ResolveOk ==
    /\ InLoop
    /\ \E gr \in GeoResponses(cities[i]) :
          LET g == CallGeo(cities[i], gr)
          IN  /\ ~g.raised
              /\ ~NotGeo(g.val)
              /\ GeoEffects(cities[i], g)
              /\ calls' = Append(calls, GeoCallRecord(gr, g))
              /\ geo' = g.val
    /\ pc' = "fetch"
    /\ UNCHANGED <<cities, show_precip, show_wind, today, i, rows, warnings, errors,
                   data, shown, fetchCache, runs, trace, fetchReq, fetchRet, unit>>

\* line 164-171: requests.get raises inside fetch_daily; nothing catches it
FetchRaise ==
    /\ pc = "fetch"
    /\ LET key == FetchKeyOf(FetchArgs(geo))
       IN  \E fr \in FetchResponses(FetchParamsOf(FetchArgs(geo))) :
              LET f == CallFetch(key, fr)
              IN  /\ f.raised
                  /\ FetchEffects(key, f)
                  /\ calls' = Append(calls, FetchCallRecord(key, fr, f))
    /\ pc' = "crashed"
    /\ trace' = Append(trace, TraceEntry(cities[i], "fetch_fail"))
    /\ UNCHANGED <<cities, show_precip, show_wind, today, i, geo, rows, warnings,
                   errors, data, shown, geoCache, runs, geoReq, geoRet, unit>>

\* line 164-175: no data for the place, warn and continue
FetchMiss ==
    /\ pc = "fetch"
    /\ LET key == FetchKeyOf(FetchArgs(geo))
       IN  \E fr \in FetchResponses(FetchParamsOf(FetchArgs(geo))) :
              LET f == CallFetch(key, fr)
              IN  /\ ~f.raised
                  /\ NoData(f.val)
                  /\ FetchEffects(key, f)
                  /\ calls' = Append(calls, FetchCallRecord(key, fr, f))
    /\ warnings' = Append(warnings, WarnNoData(cities[i]))
    /\ i' = NextIndex(i)
    /\ pc' = "loop"
    /\ trace' = Append(trace, TraceEntry(cities[i], "fetch_fail"))
    /\ UNCHANGED <<cities, show_precip, show_wind, today, geo, rows, errors, data,
                   shown, geoCache, runs, geoReq, geoRet, unit>>

\* line 164-180: the table is tagged with the place and appended
FetchOk ==
    /\ pc = "fetch"
    /\ LET key == FetchKeyOf(FetchArgs(geo))
       IN  \E fr \in FetchResponses(FetchParamsOf(FetchArgs(geo))) :
              LET f == CallFetch(key, fr)
              IN  /\ ~f.raised
                  /\ ~NoData(f.val)
                  /\ FetchEffects(key, f)
                  /\ calls' = Append(calls, FetchCallRecord(key, fr, f))
                  /\ rows' = AppendRows(rows, Tag(f.val, geo))
                  /\ trace' = Append(trace, TraceEntry(cities[i], "ok"))
    /\ i' = NextIndex(i)
    /\ pc' = "loop"
    /\ UNCHANGED <<cities, show_precip, show_wind, today, geo, warnings, errors,
                   data, shown, geoCache, runs, geoReq, geoRet, unit>>

\* mutation: the empty check never stops the run
NoRowsNever(rs) == FALSE

\* if not rows
NoRows(rs) == rs = <<>>

\* the columns of a concatenation: those of the first table, then any new
\* ones of the later tables
RECURSIVE UnionColumns(_, _)
UnionColumns(acc, cols) ==
    IF cols = <<>> THEN acc
    ELSE UnionColumns(IF Contains(acc, Head(cols)) THEN acc ELSE Append(acc, Head(cols)),
                      Tail(cols))

\* pd.concat(rows, ignore_index=True)
RECURSIVE Concat(_)
Concat(rs) ==
    IF rs = <<>> THEN [columns |-> <<>>, rows |-> <<>>]
    ELSE LET rest == Concat(Tail(rs))
         IN  [columns |-> UnionColumns(Head(rs).columns, rest.columns),
              rows |-> Head(rs).rows \o rest.rows]

\* the st.* presentation calls of line 192-342, in order
PresentationSteps(p, w, df) ==
    <<"temperature">>
    \o (IF p /\ Contains(df.columns, "precip_mm") THEN <<"precipitation">> ELSE <<>>)
    \o (IF w /\ Contains(df.columns, "wind_max") THEN <<"wind">> ELSE <<>>)
    \o <<"map", "table", "insights">>

\* line 182-184: st.error and st.stop
EmptyStop ==
    /\ pc = "loop"
    /\ i > Len(cities)
    /\ NoRows(rows)
    /\ errors' = Append(errors, "no_data")
    /\ pc' = "stopped"
    /\ UNCHANGED <<cities, show_precip, show_wind, today, i, geo, rows, warnings, data,
                   shown, geoCache, fetchCache, runs, calls, trace, geoReq,
                   fetchReq, geoRet, fetchRet, unit>>

\* line 186-342: the combined table and everything drawn from it
Present ==
    /\ pc = "loop"
    /\ i > Len(cities)
    /\ ~NoRows(rows)
    /\ LET df == Concat(rows)
       IN  /\ data' = df
           /\ shown' = PresentationSteps(show_precip, show_wind, df)
    /\ pc' = "done"
    /\ UNCHANGED <<cities, show_precip, show_wind, today, i, geo, rows, warnings,
                   errors, geoCache, fetchCache, runs, calls, trace, geoReq,
                   fetchReq, geoRet, fetchRet, unit>>

Next ==
    \/ Rerun
    \/ ResolveRaise
    \/ ResolveMiss
    \/ ResolveOk
    \/ FetchRaise
    \/ FetchMiss
    \/ FetchOk
    \/ EmptyStop
    \/ Present

Spec == Init /\ [][Next]_vars

(***************************************************************************)
(* Function harness: geocode_city and fetch_daily called directly, on      *)
(* every answer of a bounded set.                                          *)
(***************************************************************************)
SeqsUpTo(S, n) == UNION {[1..k -> S] : k \in 0..n}

\* candidates a lookup of "Mandal" can return; one carries no country
CandidatePool ==
    { Candidate("Mandalay", 22, 96, "Myanmar"),
      Candidate("Mandal", 58, 7, "Norge"),
      Candidate("Mandal", 59, 11, "Norway"),
      Candidate("Mandal", 30, 74, "India"),
      [name |-> "Mandal", latitude |-> 47, longitude |-> 106] }

HarnessGeoResponses ==
    { NetError,
      HttpResponse(500, [reason |-> "error"]),
      HttpResponse(HTTP_OK, [generationtime_ms |-> 1]) }
    \cup { HttpResponse(HTTP_OK, [results |-> cs]) : cs \in SeqsUpTo(CandidatePool, MaxCands) }

HarnessStarts ==
    { MkDate(2023, 2, 27), MkDate(2023, 12, 30), MkDate(2024, 2, 27), MkDate(2024, 4, 29) }

UnitGeocode ==
    /\ \E r \in HarnessGeoResponses :
          unit' = [fn |-> "geocode_city", city_name |-> "Mandal", r |-> r,
                   res |-> geocode_city("Mandal", r)]
    /\ UNCHANGED <<cities, show_precip, show_wind, today, pc, i, geo, rows, warnings,
                   errors, data, shown, geoCache, fetchCache, runs, calls, trace,
                   geoReq, fetchReq, geoRet, fetchRet>>

UnitFetch ==
    /\ \E start \in HarnessStarts, n \in 0..MaxSpan, p \in BOOLEAN, w \in BOOLEAN :
          LET end == AddDays(start, n)
              params == FetchParams(58, 8, start, end, p, w)
          IN  \E r \in FetchResponses(params) :
                 unit' = [fn |-> "fetch_daily", start |-> start, end |-> end,
                          need_precip |-> p, need_wind |-> w, r |-> r,
                          res |-> fetch_daily(r)]
    /\ UNCHANGED <<cities, show_precip, show_wind, today, pc, i, geo, rows, warnings,
                   errors, data, shown, geoCache, fetchCache, runs, calls, trace,
                   geoReq, fetchReq, geoRet, fetchRet>>

FnNext == UnitGeocode \/ UnitFetch

FnSpec == Init /\ [][FnNext]_vars

(***************************************************************************)
(* Properties                                                              *)
(***************************************************************************)
LoopDone == pc = "loop" /\ i > Len(cities)

RECURSIVE SelectQueries(_, _)
SelectQueries(tr, ok) ==
    IF tr = <<>> THEN <<>>
    ELSE (IF (Head(tr).outcome = "ok") = ok THEN <<Head(tr).query>> ELSE <<>>)
         \o SelectQueries(Tail(tr), ok)

\* the queries of the current run that failed, and those that succeeded
FailedQueries == SelectQueries(trace, FALSE)

SucceededQueries == SelectQueries(trace, TRUE)

WarnedQueries == [k \in 1..Len(warnings) |-> warnings[k].city]

\* the table a succeeded query contributes: what the session holds for it
PlaceTable(q) ==
    Tag(fetchCache[FetchKeyOf(FetchArgs(geoCache[GeoKey(q)]))], geoCache[GeoKey(q)])

RECURSIVE RowsOf(_)
RowsOf(qs) == IF qs = <<>> THEN <<>> ELSE PlaceTable(Head(qs)).rows \o RowsOf(Tail(qs))

\* C1: when a run is over, every query of the list has been processed, the
\* warnings name exactly the failed queries (one each, in order, by their
\* original text) and the table holds the rows of the succeeded queries only.
OrchestrationResilient ==
    RunOver =>
        /\ Len(trace) = Len(cities)
        /\ \A k \in 1..Len(trace) : trace[k].query = cities[k]
        /\ WarnedQueries = FailedQueries
        /\ Len(rows) = Len(SucceededQueries)
        /\ pc = "done" => data.rows = RowsOf(SucceededQueries)

\* C2: a network-layer error inside geocode_city or fetch_daily comes back as
\* None, never as a raised error, no run crashes, and the queries after the
\* failing one are still processed.
NetworkErrorsAbsorbed ==
    /\ \A k \in 1..Len(calls) : calls[k].net = "net_error" => calls[k].out = "none"
    /\ pc # "crashed"
    /\ RunOver => Len(trace) = Len(cities)

\* C3: on a 200 answer geocode_city returns the place built from the first
\* candidate, in returned order, whose country is accepted, and None when the
\* results are missing, empty or hold no accepted country; a returned place
\* has an accepted country.
GeocodeFirstAccepted ==
    (unit.fn = "geocode_city" /\ unit.r.kind = "http" /\ unit.r.status_code = HTTP_OK) =>
        LET cs == IF "results" \in DOMAIN unit.r.json THEN unit.r.json.results ELSE <<>>
            hits == {k \in 1..Len(cs) :
                        "country" \in DOMAIN cs[k] /\ cs[k].country \in {"Norway", "Norge"}}
        IN  /\ ~unit.res.raised
            /\ hits = {} => unit.res.val = None
            /\ hits # {} =>
                  LET first == CHOOSE k \in hits : \A j \in hits : k <= j
                  IN  /\ unit.res.val = [name |-> cs[first].name,
                                         lat |-> cs[first].latitude,
                                         lon |-> cs[first].longitude,
                                         country |-> cs[first].country]
                      /\ unit.res.val.country \in {"Norway", "Norge"}

\* C3 witness: the first candidate is abroad and a later, Norwegian one is returned
GeocodeSkipsForeign ==
    /\ unit.fn = "geocode_city"
    /\ unit.r.kind = "http"
    /\ "results" \in DOMAIN unit.r.json
    /\ Len(unit.r.json.results) = 2
    /\ "country" \in DOMAIN unit.r.json.results[1]
    /\ unit.r.json.results[1].country = "Myanmar"
    /\ "country" \in DOMAIN unit.r.json.results[2]
    /\ unit.r.json.results[2].country = "Norge"
    /\ unit.res = Returned([name |-> "Mandal", lat |-> 58, lon |-> 7, country |-> "Norge"])

\* C4: the run stops with the "no data" error exactly when the loop ends with
\* no table accumulated, and a stopped run executes no presentation step and
\* builds no combined table; presentation happens only with a table.
EmptyResultStops ==
    /\ [](pc = "stopped" =>
            /\ rows = <<>>
            /\ Len(trace) = Len(cities)
            /\ errors = <<"no_data">>
            /\ shown = <<>>
            /\ data = None)
    /\ []((shown # <<>> \/ data # None \/ pc = "done") => (rows # <<>> /\ errors = <<>>))
    /\ [][(LoopDone /\ rows = <<>>) => (pc' = "stopped" /\ shown' = <<>>)]_vars
    /\ [][pc = "stopped" => (pc' = "loop" /\ runs' = runs + 1)]_vars

\* C4 witness: every query of a non-empty list failed and the run stopped
StoppedAfterAllFailed ==
    /\ pc = "stopped"
    /\ Len(cities) = 2
    /\ Len(warnings) = 2
    /\ shown = <<>>

HasField(row, c) == c \in DOMAIN row

\* C5: every record of every per-place table and of the combined table has
\* precip_mm and precip_prob iff show_precip, and wind_max iff show_wind, in
\* every run of the session.
OptionalFieldsMatchFlags ==
    LET ok(df) ==
            /\ Contains(df.columns, "precip_mm") <=> show_precip
            /\ Contains(df.columns, "precip_prob") <=> show_precip
            /\ Contains(df.columns, "wind_max") <=> show_wind
            /\ \A n \in 1..Len(df.rows) :
                  /\ HasField(df.rows[n], "precip_mm") <=> show_precip
                  /\ HasField(df.rows[n], "precip_prob") <=> show_precip
                  /\ HasField(df.rows[n], "wind_max") <=> show_wind
    IN  /\ \A k \in 1..Len(rows) : ok(rows[k])
        /\ pc = "done" => ok(data)

\* C5 witness: a second run with the flags toggled, for a place whose table
\* under the earlier flags is still memoized
FlagsToggledOverCache ==
    /\ pc = "done"
    /\ runs = 2
    /\ show_wind /\ ~show_precip
    /\ \E old \in DOMAIN fetchCache, new \in DOMAIN fetchCache :
          /\ old[1] = new[1] /\ old[2] = new[2]
          /\ old[5] /\ ~old[6]
          /\ ~new[5] /\ new[6]
          /\ fetchCache[old] # None
          /\ fetchCache[new] # None
    /\ \A n \in 1..Len(data.rows) : HasField(data.rows[n], "wind_max")

MemoizedOnce ==
    /\ \A q \in DOMAIN geoReq : geoReq[q] <= 1
    /\ \A q \in DOMAIN geoRet : Cardinality(geoRet[q]) <= 1
    /\ \A a \in DOMAIN fetchReq : fetchReq[a] <= 1
    /\ \A a \in DOMAIN fetchRet : Cardinality(fetchRet[a]) <= 1

\* C8: no two rows of the combined table have the same city and date.
OneRowPerPlaceDate ==
    pc = "done" =>
        \A a, b \in 1..Len(data.rows) :
            a # b => ~(/\ data.rows[a].city = data.rows[b].city
                       /\ data.rows[a].date = data.rows[b].date)

CallsSequentialOnce ==
    /\ \A a, b \in 1..Len(calls) :
          a < b => /\ calls[a].query <= calls[b].query
                   /\ ~(calls[a].fn = calls[b].fn /\ calls[a].query = calls[b].query)
    /\ \A b \in 1..Len(calls) :
          /\ calls[b].query \in 1..Len(cities)
          /\ calls[b].fn = "fetch_daily" =>
                /\ b > 1
                /\ calls[b - 1].fn = "geocode_city"
                /\ calls[b - 1].query = calls[b].query
                /\ calls[b - 1].out = "value"

\* C10 witness: the first query failed resolution, the second was resolved
\* and fetched
SecondQueryAfterFailure ==
    /\ Len(calls) = 3
    /\ calls[1].fn = "geocode_city" /\ calls[1].out = "none" /\ calls[1].query = 1
    /\ calls[2].fn = "geocode_city" /\ calls[2].out = "value" /\ calls[2].query = 2
    /\ calls[3].fn = "fetch_daily" /\ calls[3].query = 2

====
